---- MODULE Spec2Model ----
(***************************************************************************)
(* TiendaSinu back office: products, stock rows, inventory movements and   *)
(* customer orders (sales), as implemented by the FastAPI route handlers   *)
(* in app/routes.  Quantities and prices are Float columns in the code;    *)
(* they are modelled as integers (exact arithmetic, no rounding).          *)
(***************************************************************************)
EXTENDS Integers, Sequences, FiniteSets, TLC

VARIABLES users, products, unit_measures, presentations, stocks, movements,
          sales, reqs, start

vars == <<users, products, unit_measures, presentations, stocks, movements,
          sales, reqs, start>>

(***************************************************************************)
(* Bounds of the model.                                                    *)
(***************************************************************************)
MaxRows == 5

(***************************************************************************)
(* Values the request payloads are drawn from.                             *)
(***************************************************************************)
\* product ids a payload may name; ids are assigned 1, 2, ... on creation
ProductIds == {1, 2}

\* MovementCreate.quantity is a float with no validator: negative values pass
Quantities == {-1, 2}

\* Optional[int] = None, stored as NULL
NoPresentation == 0

\* Optional[str] = None, stored as NULL
NoText == "NULL"

\* Movement.observation: a text, and for a dispatch the order id it names
\* (f"Despacho pedido #{pedido_id}"); 0 when the text names no order
Observation(text, pedido_id) == <<text, pedido_id>>

MovementType == {"INGRESO", "EGRESO"}

ProductCreateChoices ==
    { [name |-> "huevo", sale_price |-> 5],
      [name |-> "arroz", sale_price |-> 7] }

\* a request without a valid bearer token
Anonymous == [username |-> NoText, role |-> "none"]

RECURSIVE SumSeq(_)
SumSeq(s) == IF s = <<>> THEN 0 ELSE Head(s) + SumSeq(Tail(s))

(***************************************************************************)
(* The committed database, as one value the handlers read and return.      *)
(***************************************************************************)
DB == [users |-> users, products |-> products,
       unit_measures |-> unit_measures, presentations |-> presentations,
       stocks |-> stocks,
       movements |-> movements, sales |-> sales]

\* raise HTTPException(...): the session is closed without commit
HTTPException(status_code, db) == [code |-> status_code, db |-> db]

\* raise HTTPException(status_code=..., detail=f"..."): the text of the detail
\* and the values interpolated into it
Detailed(res, detail) == [code |-> res.code, db |-> res.db, detail |-> detail]

\* a query: nothing is written, the rows read are the response body
Returned(db, body) == [code |-> 200, db |-> db, body |-> body]

\* a handler that returns normally after db.commit()
Committed(db) == [code |-> 200, db |-> db]

\* query(...).filter(<cond>).first(): index of the first matching row, 0 = None
First(matching) ==
    IF matching = {} THEN 0
    ELSE CHOOSE i \in matching : \A j \in matching : i <= j

StockOf(db, product_id) ==
    First({ i \in 1..Len(db.stocks) : db.stocks[i].product_id = product_id })

UserOf(db, username) ==
    First({ i \in 1..Len(db.users) : db.users[i].username = username })

ProductNamed(db, name) ==
    First({ i \in 1..Len(db.products) : db.products[i].name = name })

\* current stock of a product, as obtener_stock_producto reads it (0 rows: none)
HasStock(db, product_id) == StockOf(db, product_id) # 0

Quantity(db, product_id) == db.stocks[StockOf(db, product_id)].current_quantity

(***************************************************************************)
(* app/auth.py                                                             *)
(***************************************************************************)
\* a dependency that lets every request through
get_current_user_open(token) == TRUE

\* lines 73-92: 401 unless the request carries a valid token
get_current_user(token) == token # Anonymous

\* a role check that lets every authenticated caller through
check_admin_role_any(token) == TRUE

\* lines 95-106: 403 unless the token's role is admin
check_admin_role(token) == token.role = "admin"

(***************************************************************************)
(* app/routes/auth_users.py                                                *)
(***************************************************************************)
registrar_usuario(db, token, datos) ==
    IF ~get_current_user(token) THEN HTTPException(401, db)
    ELSE IF ~check_admin_role(token) THEN HTTPException(403, db)
    ELSE IF datos.role \notin {"vendedor", "admin"} THEN HTTPException(400, db)
    ELSE IF UserOf(db, datos.username) # 0 THEN HTTPException(400, db)
    ELSE Committed([db EXCEPT !.users =
            Append(@, [username |-> datos.username, role |-> datos.role])])

(***************************************************************************)
(* app/routes/productos.py                                                 *)
(***************************************************************************)
crear_producto(db, token, producto) ==
    IF ~get_current_user(token) THEN HTTPException(401, db)
    ELSE IF ~check_admin_role(token) THEN HTTPException(403, db)
    ELSE IF ProductNamed(db, producto.name) # 0 THEN HTTPException(400, db)
    ELSE LET nuevo_producto == [name |-> producto.name,
                                sale_price |-> producto.sale_price,
                                status |-> TRUE]
             id == Len(db.products) + 1
             nuevo_stock == [product_id |-> id, current_quantity |-> 0]
         IN  Committed([db EXCEPT !.products = Append(@, nuevo_producto),
                                  !.stocks = Append(@, nuevo_stock)])

\* update_data = model_dump(exclude_unset=True); setattr(row, key, value) for
\* each field the request carries
Merged(row, update_data) ==
    [key \in DOMAIN row |->
        IF key \in DOMAIN update_data THEN update_data[key] ELSE row[key]]

\* an edit that also rewrites the price snapshot of the product's SaleItems
editar_producto_propagated(db, token, prod_id, producto_update) ==
    IF ~get_current_user(token) THEN HTTPException(401, db)
    ELSE IF ~check_admin_role(token) THEN HTTPException(403, db)
    ELSE IF prod_id \notin 1..Len(db.products) THEN HTTPException(404, db)
    ELSE LET db_prod == Merged(db.products[prod_id], producto_update)
             Repriced(item) ==
                 IF item.product_id = prod_id
                 THEN [item EXCEPT !.price_at_time = db_prod.sale_price]
                 ELSE item
             Resold(sale) ==
                 [sale EXCEPT !.items =
                     [j \in 1..Len(sale.items) |-> Repriced(sale.items[j])]]
         IN  Committed([db EXCEPT
                 !.products[prod_id] = db_prod,
                 !.sales = [i \in 1..Len(db.sales) |-> Resold(db.sales[i])]])

editar_producto(db, token, prod_id, producto_update) ==
    IF ~get_current_user(token) THEN HTTPException(401, db)
    ELSE IF ~check_admin_role(token) THEN HTTPException(403, db)
    ELSE IF prod_id \notin 1..Len(db.products) THEN HTTPException(404, db)
    ELSE Committed([db EXCEPT !.products[prod_id] = Merged(@, producto_update)])

desactivar_producto(db, token, product_id) ==
    IF ~get_current_user(token) THEN HTTPException(401, db)
    ELSE IF ~check_admin_role(token) THEN HTTPException(403, db)
    ELSE IF product_id \notin 1..Len(db.products) THEN HTTPException(404, db)
    ELSE Committed([db EXCEPT !.products[product_id].status = FALSE])

(***************************************************************************)
(* app/routes/presentaciones.py                                            *)
(***************************************************************************)
\* ids of the unit_measures rows inserted by insertar_medidas_comunes
UnitMeasureIds == 1..7

\* the rows themselves
medidas ==
    << [name |-> "gramo", abbreviation |-> "g"],
       [name |-> "kilogramo", abbreviation |-> "kg"],
       [name |-> "libra", abbreviation |-> "lb"],
       [name |-> "unidad", abbreviation |-> "u"],
       [name |-> "carton", abbreviation |-> "ctn"],
       [name |-> "cubeta", abbreviation |-> "cub"],
       [name |-> "caja", abbreviation |-> "cja"] >>

create_unit_measure(db, token, measure) ==
    IF ~get_current_user(token) THEN HTTPException(401, db)
    ELSE IF ~check_admin_role(token) THEN HTTPException(403, db)
    ELSE IF \E i \in 1..Len(db.unit_measures) :
               \/ db.unit_measures[i].name = measure.name
               \/ db.unit_measures[i].abbreviation = measure.abbreviation
         THEN HTTPException(400, db)
    ELSE Committed([db EXCEPT !.unit_measures =
            Append(@, [name |-> measure.name,
                       abbreviation |-> measure.abbreviation])])

create_presentation(db, token, product_id, presentation) ==
    IF ~get_current_user(token) THEN HTTPException(401, db)
    ELSE IF ~check_admin_role(token) THEN HTTPException(403, db)
    ELSE IF product_id \notin 1..Len(db.products) THEN HTTPException(404, db)
    ELSE IF presentation.unit_measure_id \notin 1..Len(db.unit_measures)
         THEN HTTPException(404, db)
    ELSE LET new_presentation ==
                 [product_id |-> product_id,
                  unit_measure_id |-> presentation.unit_measure_id,
                  description |-> presentation.description,
                  sale_price |-> presentation.sale_price,
                  status |-> TRUE]
         IN  Committed([db EXCEPT !.presentations = Append(@, new_presentation)])

update_presentation(db, token, presentation_id, presentation_update) ==
    IF ~get_current_user(token) THEN HTTPException(401, db)
    ELSE IF ~check_admin_role(token) THEN HTTPException(403, db)
    ELSE IF presentation_id \notin 1..Len(db.presentations)
         THEN HTTPException(404, db)
    ELSE Committed([db EXCEPT !.presentations[presentation_id] =
                                  Merged(@, presentation_update)])

delete_presentation(db, token, presentation_id) ==
    IF ~get_current_user(token) THEN HTTPException(401, db)
    ELSE IF ~check_admin_role(token) THEN HTTPException(403, db)
    ELSE IF presentation_id \notin 1..Len(db.presentations)
         THEN HTTPException(404, db)
    ELSE Committed([db EXCEPT !.presentations[presentation_id].status = FALSE])

(***************************************************************************)
(* app/routes/inventario.py                                                *)
(***************************************************************************)
\* the permission check left out
IngresoDenied_never(token, movimiento) == FALSE

\* line 43: only an admin passes the INGRESO permission check
IngresoDenied(token, movimiento) ==
    movimiento.type = "INGRESO" /\ token.role # "admin"

\* line 51: the sufficiency test of an EGRESO
Insufficient(current_quantity, quantity) == current_quantity < quantity

\* an EGRESO that adds instead of subtracting
Adjust_sign(current_quantity, movimiento) ==
    current_quantity + movimiento.quantity

\* lines 56 and 59: the new quantity of the stock row
Adjust(current_quantity, movimiento) ==
    IF movimiento.type = "EGRESO"
    THEN current_quantity - movimiento.quantity
    ELSE current_quantity + movimiento.quantity

registrar_movimiento(db, token, movimiento) ==
    LET db_stock == StockOf(db, movimiento.product_id) IN
    IF ~get_current_user(token) THEN HTTPException(401, db)
    ELSE IF db_stock = 0 THEN HTTPException(404, db)
    ELSE IF IngresoDenied(token, movimiento) THEN HTTPException(403, db)
    ELSE IF movimiento.type = "EGRESO"
            /\ Insufficient(db.stocks[db_stock].current_quantity, movimiento.quantity)
         THEN Detailed(HTTPException(400, db),
                       [text |-> "Stock insuficiente. Disponible:",
                        disponible |-> db.stocks[db_stock].current_quantity])
    ELSE LET nuevo_movimiento ==
                 [product_id |-> movimiento.product_id,
                  user_id |-> UserOf(db, token.username),
                  quantity |-> movimiento.quantity,
                  type |-> movimiento.type,
                  observation |-> movimiento.observation]
         IN  Committed([db EXCEPT
                 !.stocks[db_stock].current_quantity = Adjust(@, movimiento),
                 !.movements = Append(@, nuevo_movimiento)])

\* lines 9-15: every Stock row, for any authenticated caller
ver_stock_actual(db, token) ==
    IF ~get_current_user(token) THEN HTTPException(401, db)
    ELSE Returned(db, db.stocks)

\* lines 17-27: the first Stock row of the product, 404 when there is none
obtener_stock_producto(db, token, product_id) ==
    LET stock == StockOf(db, product_id) IN
    IF ~get_current_user(token) THEN HTTPException(401, db)
    ELSE IF stock = 0 THEN HTTPException(404, db)
    ELSE Returned(db, db.stocks[stock])

\* order_by(Movement.created_at.desc()): the latest row first
Descending(rows) == [i \in 1..Len(rows) |-> rows[Len(rows) + 1 - i]]

ver_historial_completo(db, token) ==
    IF ~get_current_user(token) THEN HTTPException(401, db)
    ELSE IF ~check_admin_role(token) THEN HTTPException(403, db)
    ELSE Returned(db, Descending(db.movements))

ver_historial_producto(db, token, product_id) ==
    LET OfProduct(row) == row.product_id = product_id IN
    IF ~get_current_user(token) THEN HTTPException(401, db)
    ELSE IF ~check_admin_role(token) THEN HTTPException(403, db)
    ELSE Returned(db, Descending(SelectSeq(db.movements, OfProduct)))

(***************************************************************************)
(* app/routes/ventas.py                                                    *)
(***************************************************************************)
\* SaleItem rows of one order whose product_id matches, first one (0 = None)
SaleItemOf(sale, product_id) ==
    First({ i \in 1..Len(sale.items) : sale.items[i].product_id = product_id })

\* sum(item.quantity * item.price_at_time for item in items)
RECURSIVE total_calculado(_)
total_calculado(items) ==
    IF items = <<>> THEN 0
    ELSE Head(items).quantity * Head(items).price_at_time
         + total_calculado(Tail(items))

\* an order creation without the checks of lines 18-28
crear_pedido_cliente_unchecked(db, pedido) ==
    Committed([db EXCEPT !.sales =
        Append(@, [client_name |-> pedido.client_name,
                   client_phone |-> pedido.client_phone,
                   total_estimated |-> pedido.total_estimated,
                   status |-> TRUE,
                   items |-> pedido.items])])

\* an order creation that takes the first line's quantity out of the stock
crear_pedido_cliente_reserva(db, pedido) ==
    LET nuevo_pedido == [client_name |-> pedido.client_name,
                         client_phone |-> pedido.client_phone,
                         total_estimated |-> pedido.total_estimated,
                         status |-> TRUE,
                         items |-> pedido.items]
        db_stock == IF Len(pedido.items) = 0 THEN 0
                    ELSE StockOf(db, pedido.items[1].product_id)
    IN  IF pedido.client_name = "" \/ pedido.client_phone = ""
        THEN HTTPException(400, db)
        ELSE IF Len(pedido.items) = 0 THEN HTTPException(400, db)
        ELSE Committed([db EXCEPT
                !.sales = Append(@, nuevo_pedido),
                !.stocks = IF db_stock = 0 THEN @
                           ELSE [@ EXCEPT ![db_stock].current_quantity =
                                              @ - pedido.items[1].quantity]])

crear_pedido_cliente(db, pedido) ==
    IF pedido.client_name = "" \/ pedido.client_phone = ""
    THEN HTTPException(400, db)
    ELSE IF Len(pedido.items) = 0 THEN HTTPException(400, db)
    ELSE LET nuevo_pedido == [client_name |-> pedido.client_name,
                              client_phone |-> pedido.client_phone,
                              total_estimated |-> pedido.total_estimated,
                              status |-> TRUE,
                              items |-> pedido.items]
         IN  Committed([db EXCEPT !.sales = Append(@, nuevo_pedido)])

\* lines 153-159: the SaleItem built from an incoming item; presentation_id and
\* presentation_description are not passed and stay NULL
nuevo_item(item) ==
    [product_id |-> item.product_id,
     presentation_id |-> NoPresentation,
     product_name |-> item.product_name,
     presentation_description |-> NoText,
     quantity |-> item.quantity,
     price_at_time |-> item.price_at_time]

\* the total taken from the request instead of recomputed
TotalActualizado_trusted(pedido_actualizado) == pedido_actualizado.total_estimated

\* line 145: the total stored by an update
TotalActualizado(pedido_actualizado) == total_calculado(pedido_actualizado.items)

\* an update that creates the order when the id names none
actualizar_pedido_upsert(db, token, pedido_id, pedido_actualizado) ==
    LET nuevo == [client_name |-> pedido_actualizado.client_name,
                  client_phone |-> pedido_actualizado.client_phone,
                  total_estimated |-> TotalActualizado(pedido_actualizado),
                  status |-> TRUE,
                  items |-> [i \in 1..Len(pedido_actualizado.items) |->
                                nuevo_item(pedido_actualizado.items[i])]]
    IN  IF ~get_current_user(token) THEN HTTPException(401, db)
        ELSE IF pedido_id \notin 1..Len(db.sales)
             THEN Committed([db EXCEPT !.sales = Append(@, nuevo)])
        ELSE Committed([db EXCEPT !.sales[pedido_id] =
                [nuevo EXCEPT !.status = db.sales[pedido_id].status]])

actualizar_pedido(db, token, pedido_id, pedido_actualizado) ==
    IF ~get_current_user(token) THEN HTTPException(401, db)
    ELSE IF pedido_id \notin 1..Len(db.sales) THEN HTTPException(404, db)
    ELSE Committed([db EXCEPT !.sales[pedido_id] =
            [@ EXCEPT !.client_name = pedido_actualizado.client_name,
                      !.client_phone = pedido_actualizado.client_phone,
                      !.total_estimated = TotalActualizado(pedido_actualizado),
                      !.items = [i \in 1..Len(pedido_actualizado.items) |->
                                    nuevo_item(pedido_actualizado.items[i])]]])

\* every line charged at the catalogue price
PrecioLinea_catalogo(db, pedido_id, item) ==
    IF item.product_id \in 1..Len(db.products)
    THEN db.products[item.product_id].sale_price * item.quantity
    ELSE 0

\* lines 188-197: the price a dispatch line is charged at
PrecioLinea(db, pedido_id, item) ==
    LET sale_item == SaleItemOf(db.sales[pedido_id], item.product_id) IN
    IF sale_item # 0
    THEN db.sales[pedido_id].items[sale_item].price_at_time * item.quantity
    ELSE IF item.product_id \in 1..Len(db.products)
         THEN db.products[item.product_id].sale_price * item.quantity
         ELSE 0

RECURSIVE nuevo_total(_, _, _)
nuevo_total(db, pedido_id, lines) ==
    IF lines = <<>> THEN 0
    ELSE PrecioLinea(db, pedido_id, Head(lines))
         + nuevo_total(db, pedido_id, Tail(lines))

\* line 206: the line cannot be served
SinStock(session, item) ==
    LET db_stock == StockOf(session, item.product_id) IN
    db_stock = 0
    \/ Insufficient(session.stocks[db_stock].current_quantity, item.quantity)

\* lines 217-223: the movement a dispatched line records
MovimientoDespacho(user_id, pedido_id, item) ==
    [product_id |-> item.product_id,
     user_id |-> user_id,
     quantity |-> item.quantity,
     type |-> "EGRESO",
     observation |-> Observation("Despacho pedido", pedido_id)]

\* a served line that records the movement but leaves the stock row alone
DescontarLinea_nostock(session, user_id, pedido_id, item) ==
    [session EXCEPT
        !.movements = Append(@, MovimientoDespacho(user_id, pedido_id, item))]

\* a served line whose movement replaces the latest Movement row
DescontarLinea_overwrite(session, user_id, pedido_id, item) ==
    LET db_stock == StockOf(session, item.product_id)
        movimiento == MovimientoDespacho(user_id, pedido_id, item)
    IN  [session EXCEPT
            !.stocks[db_stock].current_quantity = @ - item.quantity,
            !.movements = IF @ = <<>> THEN <<movimiento>>
                          ELSE [@ EXCEPT ![Len(@)] = movimiento]]

\* lines 214-231: one served line, in the session
DescontarLinea(session, user_id, pedido_id, item) ==
    LET db_stock == StockOf(session, item.product_id)
        sale_item == SaleItemOf(session.sales[pedido_id], item.product_id)
        s1 == [session EXCEPT
                 !.stocks[db_stock].current_quantity = @ - item.quantity,
                 !.movements = Append(@, MovimientoDespacho(user_id, pedido_id, item))]
    IN  IF sale_item # 0
        THEN [s1 EXCEPT !.sales[pedido_id].items[sale_item].quantity = item.quantity]
        ELSE s1

\* lines 203-231: the loop; failed = index of the line that aborted it, 0 = none
RECURSIVE Descontar(_, _, _, _, _)
Descontar(session, user_id, pedido_id, lines, i) ==
    IF i > Len(lines) THEN [failed |-> 0, session |-> session]
    ELSE IF SinStock(session, lines[i]) THEN [failed |-> i, session |-> session]
    ELSE Descontar(DescontarLinea(session, user_id, pedido_id, lines[i]),
                   user_id, pedido_id, lines, i + 1)

\* the failing dispatch keeps what the session had done so far
rollback_missing(db, session) == session

\* line 207: db.rollback() discards everything the session changed
rollback(db, session) == db

\* a dispatch that flips the status instead of setting it to false
CerrarPedido_toggle(session, pedido_id, total) ==
    [session EXCEPT !.sales[pedido_id].total_estimated = total,
                    !.sales[pedido_id].status = ~@]

\* lines 234-235: the order is closed with the new total
CerrarPedido(session, pedido_id, total) ==
    [session EXCEPT !.sales[pedido_id].total_estimated = total,
                    !.sales[pedido_id].status = FALSE]

despachar_pedido(db, token, pedido_id, productos_a_descontar) ==
    IF ~get_current_user(token) THEN HTTPException(401, db)
    ELSE IF pedido_id \notin 1..Len(db.sales) THEN HTTPException(404, db)
    ELSE LET total == nuevo_total(db, pedido_id, productos_a_descontar)
             user_id == UserOf(db, token.username)
             loop == Descontar(db, user_id, pedido_id, productos_a_descontar, 1)
         IN  IF loop.failed # 0
             THEN Detailed(HTTPException(400, rollback(db, loop.session)),
                           [text |-> "No hay suficiente stock para el producto ID",
                            product_id |->
                                productos_a_descontar[loop.failed].product_id])
             ELSE Committed(CerrarPedido(loop.session, pedido_id, total))

(***************************************************************************)
(* Request payloads.                                                       *)
(***************************************************************************)
\* bearer tokens issued by /token: one per registered user, or none
Tokens == {Anonymous} \cup
          { [username |-> users[i].username, role |-> users[i].role] :
                i \in 1..Len(users) }

MovementCreateChoices ==
    [product_id : ProductIds, quantity : Quantities, type : MovementType,
     observation : {Observation("nota", 0)}]

\* one line of a dispatch; despachar_pedido never reads MovementCreate.type
Line(product_id, quantity) ==
    [product_id |-> product_id, quantity |-> quantity, type |-> "EGRESO",
     observation |-> Observation(NoText, 0)]

\* the adjustment lists a dispatch is called with
LineLists ==
    { <<>>,
      <<Line(1, 2)>>,
      <<Line(1, -1)>>,
      <<Line(1, 1), Line(1, 1)>>,
      <<Line(1, 2), Line(2, 1)>> }

ItemA == [product_id |-> 1, presentation_id |-> 1, product_name |-> "huevo",
          presentation_description |-> "Cubeta", quantity |-> 2,
          price_at_time |-> 10]

ItemB == [product_id |-> 2, presentation_id |-> NoPresentation,
          product_name |-> "arroz", presentation_description |-> NoText,
          quantity |-> 1, price_at_time |-> 5]

SaleCreateChoices ==
    { [client_name |-> "Ana", client_phone |-> "300", total_estimated |-> 25,
       items |-> <<ItemA, ItemB>>],
      [client_name |-> "Ana", client_phone |-> "300", total_estimated |-> 7,
       items |-> <<ItemA>>],
      [client_name |-> "Ana", client_phone |-> "300", total_estimated |-> 0,
       items |-> <<>>] }

\* order requests without client name or without phone
SaleCreateInvalid ==
    { [client_name |-> n, client_phone |-> p, total_estimated |-> 20,
       items |-> <<ItemA>>] :
          n \in {"", "Ana"}, p \in {"", "300"} }
    \ { [client_name |-> "Ana", client_phone |-> "300", total_estimated |-> 20,
         items |-> <<ItemA>>] }

\* order ids a request may name: the existing ones and one that does not exist
PedidoIds == 1..(Len(sales) + 1)

(***************************************************************************)
(* State machine: each action is one request, handled to completion.       *)
(* The two users are the seeded administrator and a seller registered by   *)
(* it; reqs and start belong to the interleaved requests further below.    *)
(***************************************************************************)
Init ==
    /\ users = << [username |-> "admin_central", role |-> "admin"],
                  [username |-> "vendedor1", role |-> "vendedor"] >>
    /\ products = <<>>
    /\ unit_measures = medidas
    /\ presentations = <<>>
    /\ stocks = <<>>
    /\ movements = <<>>
    /\ sales = <<>>
    /\ reqs = <<>>
    /\ start = <<>>

\* rows in the products, presentations, movements, sales and sale_items tables
RECURSIVE SaleRows(_)
SaleRows(ss) ==
    IF ss = <<>> THEN 0 ELSE 1 + Len(Head(ss).items) + SaleRows(Tail(ss))

Rows(db) == Len(db.products) + Len(db.presentations) + Len(db.movements)
            + SaleRows(db.sales)

\* the response is sent: the database is what the handler left committed;
\* a request that would add a row is served while the tables have room
Respond(res) ==
    /\ Rows(res.db) <= (IF Rows(DB) > MaxRows THEN Rows(DB) ELSE MaxRows)
    /\ users' = res.db.users
    /\ products' = res.db.products
    /\ unit_measures' = res.db.unit_measures
    /\ presentations' = res.db.presentations
    /\ stocks' = res.db.stocks
    /\ movements' = res.db.movements
    /\ sales' = res.db.sales
    /\ UNCHANGED <<reqs, start>>

CrearProducto ==
    \E token \in Tokens, producto \in ProductCreateChoices :
        Respond(crear_producto(DB, token, producto))

RegistrarMovimiento ==
    \E token \in Tokens, movimiento \in MovementCreateChoices :
        Respond(registrar_movimiento(DB, token, movimiento))

CrearPedidoCliente ==
    \E pedido \in SaleCreateChoices \cup SaleCreateInvalid :
        Respond(crear_pedido_cliente(DB, pedido))

ActualizarPedido ==
    \E token \in Tokens, pedido_id \in PedidoIds, pedido \in SaleCreateChoices :
        Respond(actualizar_pedido(DB, token, pedido_id, pedido))

DespacharPedido ==
    \E token \in Tokens, pedido_id \in PedidoIds, lines \in LineLists :
        Respond(despachar_pedido(DB, token, pedido_id, lines))

Next ==
    \/ CrearProducto
    \/ RegistrarMovimiento
    \/ CrearPedidoCliente
    \/ ActualizarPedido
    \/ DespacharPedido

Spec == Init /\ [][Next]_vars

(***************************************************************************)
(* Interleaved requests.  Two requests run at once, each in its own        *)
(* SQLAlchemy session: a plain SELECT (no FOR UPDATE) loads a row into the *)
(* session the first time the request asks for it, the request then works  *)
(* on the loaded object, and db.commit() writes the objects it changed.    *)
(* The store is the transactional one of the specification (section 6):   *)
(* commit makes a session's writes visible at once, rollback discards      *)
(* them, and a row is read and written atomically only when the code asks  *)
(* for it.                                                                 *)
(***************************************************************************)
Workers == {1, 2}

EmptyDB == [users |-> << [username |-> "admin_central", role |-> "admin"],
                         [username |-> "vendedor1", role |-> "vendedor"] >>,
            products |-> <<>>, unit_measures |-> medidas,
            presentations |-> <<>>, stocks |-> <<>>,
            movements |-> <<>>, sales |-> <<>>]

AdminToken == [username |-> "admin_central", role |-> "admin"]

\* the database after the admin created a product and received 2 units of it
\* and a customer ordered it
StockedDB ==
    LET db1 == crear_producto(EmptyDB, AdminToken,
                              [name |-> "huevo", sale_price |-> 5]).db
        db2 == registrar_movimiento(db1, AdminToken,
                   [product_id |-> 1, quantity |-> 2, type |-> "INGRESO",
                    observation |-> Observation("nota", 0)]).db
    IN  crear_pedido_cliente(db2,
            [client_name |-> "Ana", client_phone |-> "300",
             total_estimated |-> 7, items |-> <<ItemA>>]).db

Idle == [pc |-> "idle", op |-> "none", token |-> Anonymous, pedido_id |-> 0,
         lines |-> <<>>, i |-> 1, loaded |-> {}, img |-> EmptyDB, total |-> 0,
         pedido |-> <<>>, code |-> 0]

\* what the two requests may be
ConcDispatchLines == { <<Line(1, 2)>>, <<Line(1, 1), Line(1, 1)>>, <<Line(1, 1)>> }

ConcMovements ==
    { [product_id |-> 1, quantity |-> q, type |-> t,
       observation |-> Observation("nota", 0)] :
          q \in {1, 2}, t \in MovementType }

InitConc ==
    /\ users = StockedDB.users
    /\ products = StockedDB.products
    /\ unit_measures = StockedDB.unit_measures
    /\ presentations = StockedDB.presentations
    /\ stocks = StockedDB.stocks
    /\ movements = StockedDB.movements
    /\ sales = StockedDB.sales
    /\ reqs = [w \in Workers |-> Idle]
    /\ start = StockedDB

\* the session's image of the database once it has loaded Stock row k: a row
\* already in the session keeps the value the session holds
Load(img, loaded, k) ==
    IF k = 0 \/ k \in loaded THEN img
    ELSE [img EXCEPT !.stocks[k] = stocks[k]]

\* ventas.py 181-200: the order and its items are read, the total computed
BeginDespachar(w) ==
    /\ reqs[w].pc = "idle"
    /\ \E token \in Tokens \ {Anonymous}, lines \in ConcDispatchLines :
          reqs' = [reqs EXCEPT ![w] =
                     [Idle EXCEPT !.pc = "loop", !.op = "despachar_pedido",
                                  !.token = token, !.pedido_id = 1,
                                  !.lines = lines,
                                  !.img = [DB EXCEPT !.movements = <<>>],
                                  !.total = nuevo_total(DB, 1, lines)]]
    /\ UNCHANGED <<users, products, unit_measures, presentations, stocks,
                 movements, sales, start>>

\* ventas.py 203-231: one pass of the loop
LineaDespachar(w) ==
    LET r == reqs[w]
        item == r.lines[r.i]
        k == StockOf(DB, item.product_id)
        img == Load(r.img, r.loaded, k)
    IN  /\ r.pc = "loop"
        /\ r.op = "despachar_pedido"
        /\ r.i <= Len(r.lines)
        /\ reqs' = [reqs EXCEPT ![w] =
              IF SinStock(img, item)
              THEN [r EXCEPT !.pc = "done", !.code = 400,
                             !.img = rollback(EmptyDB, img), !.loaded = {}]
              ELSE [r EXCEPT !.i = @ + 1,
                             !.loaded = @ \cup {k},
                             !.img = DescontarLinea(img,
                                        UserOf(DB, r.token.username),
                                        r.pedido_id, item)]]
        /\ UNCHANGED <<users, products, unit_measures, presentations, stocks,
                 movements, sales, start>>

\* the rows of the order a dispatch writes: the header, and the quantity of
\* the items its lines matched
SaleWritten(sale, img_sale, lines, total) ==
    [sale EXCEPT
        !.total_estimated = total,
        !.status = FALSE,
        !.items = [j \in 1..Len(sale.items) |->
                      IF \E n \in 1..Len(lines) :
                            SaleItemOf(img_sale, lines[n].product_id) = j
                      THEN [sale.items[j] EXCEPT !.quantity = img_sale.items[j].quantity]
                      ELSE sale.items[j]]]

\* the Stock rows after the session's UPDATEs: the loaded rows take the value
\* the session computed
StocksWritten(committed, img, loaded) ==
    [k \in 1..Len(committed) |->
        IF k \in loaded THEN img.stocks[k] ELSE committed[k]]

\* ventas.py 234-237: the order is closed and the session committed
CommitDespachar(w) ==
    LET r == reqs[w] IN
    /\ r.pc = "loop"
    /\ r.op = "despachar_pedido"
    /\ r.i > Len(r.lines)
    /\ stocks' = StocksWritten(stocks, r.img, r.loaded)
    /\ movements' = movements \o r.img.movements
    /\ sales' = [sales EXCEPT ![r.pedido_id] =
                    SaleWritten(@, r.img.sales[r.pedido_id], r.lines, r.total)]
    /\ reqs' = [reqs EXCEPT ![w] = [r EXCEPT !.pc = "done", !.code = 200]]
    /\ UNCHANGED <<users, products, unit_measures, presentations, start>>

\* inventario.py 38-72: the Stock row is read, checked and changed in the
\* session, the movement added to it
LeerMovimiento(w) ==
    /\ reqs[w].pc = "idle"
    /\ \E token \in Tokens \ {Anonymous}, movimiento \in ConcMovements :
          LET k == StockOf(DB, movimiento.product_id)
              img == Load([DB EXCEPT !.movements = <<>>], {}, k)
              res == registrar_movimiento(img, token, movimiento)
          IN  reqs' = [reqs EXCEPT ![w] =
                 IF res.code # 200
                 THEN [Idle EXCEPT !.pc = "done", !.op = "registrar_movimiento",
                                   !.token = token, !.lines = <<movimiento>>,
                                   !.code = res.code]
                 ELSE [Idle EXCEPT !.pc = "commit", !.op = "registrar_movimiento",
                                   !.token = token, !.lines = <<movimiento>>,
                                   !.loaded = {k}, !.img = res.db]]
    /\ UNCHANGED <<users, products, unit_measures, presentations, stocks,
                 movements, sales, start>>

\* inventario.py 74-75: db.commit()
CommitMovimiento(w) ==
    LET r == reqs[w] IN
    /\ r.pc = "commit"
    /\ r.op = "registrar_movimiento"
    /\ stocks' = StocksWritten(stocks, r.img, r.loaded)
    /\ movements' = movements \o r.img.movements
    /\ reqs' = [reqs EXCEPT ![w] = [r EXCEPT !.pc = "done", !.code = 200]]
    /\ UNCHANGED <<users, products, unit_measures, presentations,
                 sales, start>>

NextConc ==
    \E w \in Workers :
        \/ BeginDespachar(w)
        \/ LineaDespachar(w)
        \/ CommitDespachar(w)
        \/ LeerMovimiento(w)
        \/ CommitMovimiento(w)

SpecConc == InitConc /\ [][NextConc]_vars

(***************************************************************************)
(* Order creation, step by step.  The header is added and flushed, the     *)
(* items are added one by one, and one commit ends the request; the commit *)
(* may raise (an item row the store refuses), and the handler then rolls   *)
(* back and answers 500.                                                   *)
(***************************************************************************)
\* a flush that publishes the session's pending rows at once
Flushed_autocommit(committed, pending) == pending

\* db.flush() sends the INSERT inside the open transaction: the committed
\* rows, which are what other requests read, stay as they are
Flushed(committed, pending) == committed

\* ventas.py 18-40: the request is validated, the header added and flushed
FlushCabecera(w) ==
    /\ reqs[w].pc = "idle"
    /\ \E pedido \in SaleCreateChoices \cup SaleCreateInvalid :
          LET nuevo_pedido == [client_name |-> pedido.client_name,
                               client_phone |-> pedido.client_phone,
                               total_estimated |-> pedido.total_estimated,
                               status |-> TRUE,
                               items |-> <<>>]
              img == [DB EXCEPT !.sales = Append(@, nuevo_pedido)]
          IN  IF crear_pedido_cliente(DB, pedido).code = 400
              THEN /\ reqs' = [reqs EXCEPT ![w] =
                          [Idle EXCEPT !.pc = "done",
                                       !.op = "crear_pedido_cliente",
                                       !.pedido = pedido, !.code = 400]]
                   /\ UNCHANGED sales
              ELSE /\ reqs' = [reqs EXCEPT ![w] =
                          [Idle EXCEPT !.pc = "items",
                                       !.op = "crear_pedido_cliente",
                                       !.pedido = pedido,
                                       !.pedido_id = Len(img.sales),
                                       !.img = img]]
                   /\ sales' = Flushed(sales, img.sales)
    /\ UNCHANGED <<users, products, unit_measures, presentations,
                 stocks, movements, start>>

\* ventas.py 43-53: one SaleItem is added to the session
AgregarItem(w) ==
    LET r == reqs[w] IN
    /\ r.pc = "items"
    /\ r.i <= Len(r.pedido.items)
    /\ reqs' = [reqs EXCEPT ![w] =
          [r EXCEPT !.i = @ + 1,
                    !.img.sales[r.pedido_id].items = Append(@, r.pedido.items[r.i])]]
    /\ UNCHANGED <<users, products, unit_measures, presentations, stocks,
                 movements, sales, start>>

\* ventas.py 56-57, 62: the commit succeeds, header and items become visible
CommitCrear(w) ==
    LET r == reqs[w] IN
    /\ r.pc = "items"
    /\ r.i > Len(r.pedido.items)
    /\ sales' = Append(sales, r.img.sales[r.pedido_id])
    /\ reqs' = [reqs EXCEPT ![w] = [r EXCEPT !.pc = "done", !.code = 200]]
    /\ UNCHANGED <<users, products, unit_measures, presentations,
                 stocks, movements, start>>

\* ventas.py 58-60: the commit raises; rollback, 500
FallaCrear(w) ==
    LET r == reqs[w] IN
    /\ r.pc = "items"
    /\ r.i > Len(r.pedido.items)
    /\ reqs' = [reqs EXCEPT ![w] =
          [r EXCEPT !.pc = "done", !.code = 500,
                    !.img = rollback(EmptyDB, r.img)]]
    /\ UNCHANGED <<users, products, unit_measures, presentations, stocks,
                 movements, sales, start>>

NextCrear ==
    \E w \in Workers :
        \/ FlushCabecera(w)
        \/ AgregarItem(w)
        \/ CommitCrear(w)
        \/ FallaCrear(w)

SpecCrear == InitConc /\ [][NextCrear]_vars

(***************************************************************************)
(* Product creation step by step.  crear_producto commits twice, the       *)
(* Product row first and its Stock row afterwards, and the fix_stock       *)
(* script reads the products, looks for the Stock row of each and commits  *)
(* the rows it found missing.  Two workers run requests and script runs    *)
(* against an empty shop; every commit is a state other sessions read.     *)
(***************************************************************************)
Reposo == [pc |-> "idle", op |-> "none", producto |-> <<>>, product_id |-> 0,
           productos |-> <<>>, i |-> 1, pending |-> <<>>]

InitProducto ==
    /\ users = EmptyDB.users
    /\ products = EmptyDB.products
    /\ unit_measures = EmptyDB.unit_measures
    /\ presentations = EmptyDB.presentations
    /\ stocks = EmptyDB.stocks
    /\ movements = EmptyDB.movements
    /\ sales = EmptyDB.sales
    /\ reqs = [w \in Workers |-> Reposo]
    /\ start = EmptyDB

\* productos.py 47-58: the role check and the query for a product of that name
ValidarProducto(w) ==
    /\ reqs[w].pc = "idle"
    /\ \E token \in Tokens, producto \in ProductCreateChoices :
          reqs' = [reqs EXCEPT ![w] =
              IF crear_producto(DB, token, producto).code # 200 THEN Reposo
              ELSE [Reposo EXCEPT !.pc = "producto",
                                  !.op = "crear_producto",
                                  !.producto = producto]]
    /\ UNCHANGED <<users, products, unit_measures, presentations, stocks,
                 movements, sales, start>>

\* productos.py 61-64: the Product row is added, committed and refreshed
CommitProducto(w) ==
    LET r == reqs[w]
        nuevo_producto == [name |-> r.producto.name,
                           sale_price |-> r.producto.sale_price,
                           status |-> TRUE]
    IN  /\ r.pc = "producto"
        /\ products' = Append(products, nuevo_producto)
        /\ reqs' = [reqs EXCEPT ![w] =
              [r EXCEPT !.pc = "stock", !.product_id = Len(products) + 1]]
        /\ UNCHANGED <<users, unit_measures, presentations, stocks,
                     movements, sales, start>>

\* productos.py 67-71: the Stock row is added and committed, 201
CommitStock(w) ==
    LET r == reqs[w]
        nuevo_stock == [product_id |-> r.product_id, current_quantity |-> 0]
    IN  /\ r.pc = "stock"
        /\ stocks' = Append(stocks, nuevo_stock)
        /\ reqs' = [reqs EXCEPT ![w] = Reposo]
        /\ UNCHANGED <<users, products, unit_measures, presentations,
                     movements, sales, start>>

\* fix_stock.py 9-12: the script opens a session and reads every product
LeerProductos(w) ==
    /\ reqs[w].pc = "idle"
    /\ reqs' = [reqs EXCEPT ![w] =
          [Reposo EXCEPT !.pc = "loop", !.op = "fix_stock",
                         !.productos = [id \in 1..Len(products) |-> id]]]
    /\ UNCHANGED <<users, products, unit_measures, presentations, stocks,
                 movements, sales, start>>

\* fix_stock.py 15-20: one product of the loop; a Stock row is added to the
\* session when the query finds none
VerificarStock(w) ==
    LET r == reqs[w]
        producto_id == r.productos[r.i]
        stock_existente == StockOf(DB, producto_id)
        nuevo_stock == [product_id |-> producto_id, current_quantity |-> 0]
    IN  /\ r.pc = "loop"
        /\ r.i <= Len(r.productos)
        /\ reqs' = [reqs EXCEPT ![w] =
              [r EXCEPT !.i = @ + 1,
                        !.pending = IF stock_existente = 0
                                    THEN Append(@, nuevo_stock) ELSE @]]
        /\ UNCHANGED <<users, products, unit_measures, presentations, stocks,
                     movements, sales, start>>

\* fix_stock.py 22-24: the rows of the session are committed
CommitFix(w) ==
    LET r == reqs[w] IN
    /\ r.pc = "loop"
    /\ r.i > Len(r.productos)
    /\ stocks' = stocks \o r.pending
    /\ reqs' = [reqs EXCEPT ![w] = Reposo]
    /\ UNCHANGED <<users, products, unit_measures, presentations,
                 movements, sales, start>>

NextProducto ==
    \E w \in Workers :
        \/ ValidarProducto(w)
        \/ CommitProducto(w)
        \/ CommitStock(w)
        \/ LeerProductos(w)
        \/ VerificarStock(w)
        \/ CommitFix(w)

SpecProducto == InitProducto /\ [][NextProducto]_vars

(***************************************************************************)
(* Catalogue maintenance.  The administrator edits and deactivates         *)
(* products and presentations of a shop that already has orders: one       *)
(* closed, whose item names a presentation, or one dispatched from stock.  *)
(***************************************************************************)
ProductUpdateChoices ==
    { [name |-> "huevo AA"], [sale_price |-> 6],
      [name |-> "huevo AA", sale_price |-> 6] }

PresentationCreateChoices ==
    { [unit_measure_id |-> 6, description |-> "Cubeta", sale_price |-> 10],
      [unit_measure_id |-> 9, description |-> "Cubeta", sale_price |-> 10] }

PresentationUpdateChoices ==
    { [description |-> "Canasta"], [sale_price |-> 12] }

\* a new measure and one whose name is taken
UnitMeasureCreateChoices ==
    { [name |-> "docena", abbreviation |-> "dz"],
      [name |-> "gramo", abbreviation |-> "gr"] }

\* a new seller, a username that is taken and a role that does not exist
UserCreateChoices ==
    { [username |-> "vendedor2", role |-> "vendedor"],
      [username |-> "vendedor1", role |-> "vendedor"],
      [username |-> "cliente1", role |-> "cliente"] }

\* the admin created a product and its presentation, a customer ordered the
\* presentation and the order was closed
PresentedDB ==
    LET db1 == crear_producto(EmptyDB, AdminToken,
                              [name |-> "huevo", sale_price |-> 5]).db
        db2 == create_presentation(db1, AdminToken, 1,
                   [unit_measure_id |-> 6, description |-> "Cubeta",
                    sale_price |-> 10]).db
        db3 == crear_pedido_cliente(db2,
                   [client_name |-> "Ana", client_phone |-> "300",
                    total_estimated |-> 20, items |-> <<ItemA>>]).db
    IN  despachar_pedido(db3, AdminToken, 1, <<>>).db

\* the stocked shop after its order was dispatched
DispatchedDB == despachar_pedido(StockedDB, AdminToken, 1, <<Line(1, 2)>>).db

InitCatalogo ==
    \E db \in {PresentedDB, DispatchedDB} :
        /\ users = db.users
        /\ products = db.products
        /\ unit_measures = db.unit_measures
        /\ presentations = db.presentations
        /\ stocks = db.stocks
        /\ movements = db.movements
        /\ sales = db.sales
        /\ reqs = <<>>
        /\ start = db

EditarProducto ==
    \E token \in Tokens, prod_id \in ProductIds,
       producto_update \in ProductUpdateChoices :
        Respond(editar_producto(DB, token, prod_id, producto_update))

DesactivarProducto ==
    \E token \in Tokens, product_id \in ProductIds :
        Respond(desactivar_producto(DB, token, product_id))

CreatePresentation ==
    \E token \in Tokens, product_id \in ProductIds,
       presentation \in PresentationCreateChoices :
        Respond(create_presentation(DB, token, product_id, presentation))

UpdatePresentation ==
    \E token \in Tokens, presentation_id \in 1..(Len(presentations) + 1),
       presentation_update \in PresentationUpdateChoices :
        Respond(update_presentation(DB, token, presentation_id,
                                    presentation_update))

DeletePresentation ==
    \E token \in Tokens, presentation_id \in 1..(Len(presentations) + 1) :
        Respond(delete_presentation(DB, token, presentation_id))

CreateUnitMeasure ==
    \E token \in Tokens, measure \in UnitMeasureCreateChoices :
        Respond(create_unit_measure(DB, token, measure))

RegistrarUsuario ==
    \E token \in Tokens, datos \in UserCreateChoices :
        Respond(registrar_usuario(DB, token, datos))

VerHistorialCompleto ==
    \E token \in Tokens : Respond(ver_historial_completo(DB, token))

VerHistorialProducto ==
    \E token \in Tokens, product_id \in ProductIds :
        Respond(ver_historial_producto(DB, token, product_id))

NextCatalogo ==
    \/ EditarProducto
    \/ DesactivarProducto
    \/ CreatePresentation
    \/ UpdatePresentation
    \/ DeletePresentation
    \/ CreateUnitMeasure
    \/ RegistrarUsuario
    \/ VerHistorialCompleto
    \/ VerHistorialProducto

SpecCatalogo == InitCatalogo /\ [][NextCatalogo]_vars

(***************************************************************************)
(* Properties of the request handlers, stated over every reachable         *)
(* database and every request of the payload sets.                         *)
(***************************************************************************)
NonAdminTokens == { t \in Tokens : t.role # "admin" }

\* sum of the quantities of the rows of one product whose type is in types
RECURSIVE SumQuantity(_, _, _)
SumQuantity(rows, product_id, types) ==
    IF rows = <<>> THEN 0
    ELSE (IF Head(rows).product_id = product_id /\ Head(rows).type \in types
          THEN Head(rows).quantity ELSE 0)
         + SumQuantity(Tail(rows), product_id, types)

\* what the Movement rows of a product add up to: INGRESO minus EGRESO
Ledger(rows, product_id) ==
    SumQuantity(rows, product_id, {"INGRESO"})
    - SumQuantity(rows, product_id, {"EGRESO"})

\* what the lines of a dispatch ask of one product
Requested(lines, product_id) == SumQuantity(lines, product_id, MovementType)

\* C1: in every reachable state every Stock row's current_quantity is >= 0,
\* whatever quantities the MovementCreate payloads carried.
C1_StockNeverNegative ==
    \A k \in 1..Len(stocks) : stocks[k].current_quantity >= 0

\* C2: a dispatch that fails for stock (a line exceeds the available stock or
\* names a product without Stock row) leaves every Stock row as it was before
\* the call, the rows decremented by earlier lines included.
C2_DispatchAllOrNothing ==
    \A token \in Tokens, pedido_id \in PedidoIds, lines \in LineLists :
        LET res == despachar_pedido(DB, token, pedido_id, lines) IN
        res.code = 400 => res.db.stocks = stocks

\* a dispatch whose first line was served in the session and whose second
\* line then failed
C2_Witness ==
    \E token \in Tokens, pedido_id \in PedidoIds, lines \in LineLists :
        /\ get_current_user(token)
        /\ pedido_id \in 1..Len(sales)
        /\ LET loop == Descontar(DB, UserOf(DB, token.username), pedido_id, lines, 1)
           IN  /\ loop.failed = 2
               /\ loop.session.stocks # stocks
        /\ despachar_pedido(DB, token, pedido_id, lines).code = 400

\* both interleaved requests have been answered
BothDone == \A w \in Workers : reqs[w].pc = "done"

\* C3: two concurrent dispatches of the same product, each satisfiable alone
\* and together asking more than the stock: in every interleaving exactly one
\* succeeds, the other fails for insufficient stock, and the final stock is
\* not negative.
C3_ExactlyOneDispatchSucceeds ==
    ( /\ BothDone
      /\ \A w \in Workers :
            /\ reqs[w].op = "despachar_pedido"
            /\ Requested(reqs[w].lines, 1) <= Quantity(start, 1)
      /\ Requested(reqs[1].lines, 1) + Requested(reqs[2].lines, 1)
            > Quantity(start, 1) )
    => /\ \E w \in Workers : reqs[w].code = 200
       /\ \E w \in Workers : reqs[w].code = 400
       /\ Quantity(DB, 1) >= 0

\* what a committed request adds to the stock of a product: its INGRESO
\* quantity, minus its EGRESO quantity or the quantities of its dispatch lines
Delta(r, product_id) ==
    IF r.op = "despachar_pedido" THEN 0 - Requested(r.lines, product_id)
    ELSE Ledger(r.lines, product_id)

\* C4: when two concurrent stock-changing requests on the same product both
\* commit, the final current_quantity is the initial one plus the committed
\* INGRESO quantities minus the committed EGRESO quantities of both.
C4_NoLostUpdate ==
    ( BothDone /\ \A w \in Workers : reqs[w].code = 200 )
    => Quantity(DB, 1) =
          Quantity(start, 1) + Delta(reqs[1], 1) + Delta(reqs[2], 1)

\* C5: in every committed state reached by a sequence of crear_producto,
\* registrar_movimiento and despachar_pedido calls, every Stock row's
\* current_quantity equals the sum of its product's INGRESO movements minus
\* the sum of its EGRESO movements.
C5_LedgerInvariant ==
    \A k \in 1..Len(stocks) :
        stocks[k].current_quantity = Ledger(movements, stocks[k].product_id)

\* a product that has received goods, had a direct EGRESO and a dispatch
C5_Witness ==
    /\ \E i \in 1..Len(movements) : movements[i].type = "INGRESO"
    /\ \E i \in 1..Len(movements) :
          movements[i].type = "EGRESO"
          /\ movements[i].observation = Observation("nota", 0)
    /\ \E i \in 1..Len(movements) : movements[i].observation = Observation("Despacho pedido", 1)

\* C6: an INGRESO through registrar_movimiento succeeds only for an admin; for
\* a vendedor (the product having a Stock row) it answers 403 and changes
\* neither the stock nor the Movement rows.
C6_IngresoAdminOnly ==
    \A token \in Tokens, movimiento \in MovementCreateChoices :
        LET res == registrar_movimiento(DB, token, movimiento) IN
        movimiento.type = "INGRESO" =>
            /\ res.code = 200 => token.role = "admin"
            /\ (token.role = "vendedor" /\ HasStock(DB, movimiento.product_id)) =>
                  /\ res.code = 403
                  /\ res.db.stocks = stocks
                  /\ res.db.movements = movements

\* a vendedor asks for an INGRESO on a product that has a Stock row
C6_Witness ==
    \E token \in Tokens, movimiento \in MovementCreateChoices :
        /\ token.role = "vendedor"
        /\ movimiento.type = "INGRESO"
        /\ HasStock(DB, movimiento.product_id)
        /\ registrar_movimiento(DB, token, movimiento).code = 403

\* no Stock row of db2 holds more than the same row of db1
NoStockIncrease(db1, db2) ==
    /\ Len(db2.stocks) = Len(db1.stocks)
    /\ \A k \in 1..Len(db1.stocks) :
          db2.stocks[k].current_quantity <= db1.stocks[k].current_quantity

\* C7: no request of a caller who is not admin (vendedor or anonymous) leaves
\* a Stock row with more than it had: registrar_movimiento (EGRESO included)
\* and despachar_pedido with any accepted quantity.
C7_NonAdminNeverAddsStock ==
    \A token \in NonAdminTokens :
        /\ \A movimiento \in MovementCreateChoices :
              NoStockIncrease(DB, registrar_movimiento(DB, token, movimiento).db)
        /\ \A pedido_id \in PedidoIds, lines \in LineLists :
              NoStockIncrease(DB, despachar_pedido(DB, token, pedido_id, lines).db)

\* C8: after a successful actualizar_pedido the order's total_estimated is the
\* sum of quantity * price_at_time over the incoming items, whatever total the
\* request carried.
C8_UpdateRecomputesTotal ==
    \A token \in Tokens, pedido_id \in PedidoIds, pedido \in SaleCreateChoices :
        LET res == actualizar_pedido(DB, token, pedido_id, pedido)
            lineas == [i \in 1..Len(pedido.items) |->
                          pedido.items[i].quantity * pedido.items[i].price_at_time]
        IN  res.code = 200 =>
                res.db.sales[pedido_id].total_estimated = SumSeq(lineas)

\* an update whose request carries a total that is not the sum of its items
C8_Witness ==
    \E token \in Tokens, pedido_id \in PedidoIds, pedido \in SaleCreateChoices :
        /\ actualizar_pedido(DB, token, pedido_id, pedido).code = 200
        /\ pedido.items # <<>>
        /\ pedido.total_estimated #
              SumSeq([i \in 1..Len(pedido.items) |->
                        pedido.items[i].quantity * pedido.items[i].price_at_time])

\* C9: a successful dispatch takes from every product exactly what its lines
\* ask, appends one EGRESO Movement per line (the caller's user id, the line's
\* quantity, an observation naming the order) and closes the order.
C9_DispatchEffect ==
    \A token \in Tokens, pedido_id \in PedidoIds, lines \in LineLists :
        LET res == despachar_pedido(DB, token, pedido_id, lines) IN
        res.code = 200 =>
            /\ Len(res.db.stocks) = Len(stocks)
            /\ \A k \in 1..Len(stocks) :
                  /\ res.db.stocks[k].product_id = stocks[k].product_id
                  /\ res.db.stocks[k].current_quantity =
                        stocks[k].current_quantity
                        - Requested(lines, stocks[k].product_id)
            /\ res.db.movements = movements \o
                  [i \in 1..Len(lines) |->
                      [product_id |-> lines[i].product_id,
                       user_id |-> UserOf(DB, token.username),
                       quantity |-> lines[i].quantity,
                       type |-> "EGRESO",
                       observation |-> Observation("Despacho pedido", pedido_id)]]
            /\ res.db.sales[pedido_id].status = FALSE

\* a pending order dispatched with two lines, both served
C9_Witness ==
    \E token \in Tokens, pedido_id \in PedidoIds, lines \in LineLists :
        /\ despachar_pedido(DB, token, pedido_id, lines).code = 200
        /\ Len(lines) = 2
        /\ sales[pedido_id].status

\* C10: a dispatch that fails for stock adds no Movement row and leaves the
\* order as it was: status, total_estimated and every SaleItem quantity.
C10_FailedDispatchFrame ==
    \A token \in Tokens, pedido_id \in PedidoIds, lines \in LineLists :
        LET res == despachar_pedido(DB, token, pedido_id, lines) IN
        res.code = 400 =>
            /\ res.db.movements = movements
            /\ res.db.sales = sales
            /\ sales[pedido_id].status => res.db.sales[pedido_id].status

\* a pending order whose dispatch had recorded a movement and changed an item's
\* quantity in the session before a later line failed
C10_Witness ==
    \E token \in Tokens, pedido_id \in PedidoIds, lines \in LineLists :
        /\ despachar_pedido(DB, token, pedido_id, lines).code = 400
        /\ sales[pedido_id].status
        /\ LET loop == Descontar(DB, UserOf(DB, token.username), pedido_id, lines, 1)
           IN  /\ loop.failed > 1
               /\ loop.session.movements # movements
               /\ loop.session.sales # sales

\* C11: a dispatched order (status false) is terminal: a further
\* despachar_pedido on it takes nothing from any Stock row, appends no
\* Movement row and leaves the order's total_estimated as it was.
C11_DispatchedIsTerminal ==
    \A token \in Tokens, pedido_id \in 1..Len(sales), lines \in LineLists :
        LET res == despachar_pedido(DB, token, pedido_id, lines) IN
        ~sales[pedido_id].status =>
            /\ res.db.stocks = stocks
            /\ res.db.movements = movements
            /\ res.db.sales[pedido_id].total_estimated =
                  sales[pedido_id].total_estimated

\* C12: an order is created with status true, and in no step does an order
\* whose status is false get status true again (nor does an order disappear).
C12_NeverReopened ==
    [][ /\ Len(sales') >= Len(sales)
        /\ \A i \in 1..Len(sales') :
              IF i <= Len(sales)
              THEN ~sales[i].status => ~sales'[i].status
              ELSE sales'[i].status ]_vars

\* a closed order that was updated after its dispatch: without any product the
\* only dispatch that succeeds has no lines and leaves total 0, so the total
\* was written by a later actualizar_pedido
C12_Witness ==
    /\ products = <<>>
    /\ \E i \in 1..Len(sales) :
          ~sales[i].status /\ sales[i].total_estimated # 0

\* C13: actualizar_pedido on a dispatched order (status false) changes neither
\* its SaleItems nor its total_estimated.
C13_UpdateOnlyWhileOpen ==
    \A token \in Tokens, pedido_id \in 1..Len(sales), pedido \in SaleCreateChoices :
        LET res == actualizar_pedido(DB, token, pedido_id, pedido) IN
        ~sales[pedido_id].status =>
            /\ res.db.sales[pedido_id].items = sales[pedido_id].items
            /\ res.db.sales[pedido_id].total_estimated =
                  sales[pedido_id].total_estimated

\* C14: update_presentation, delete_presentation, editar_producto and
\* desactivar_producto leave every existing SaleItem (product_name,
\* presentation_description, quantity, price_at_time) as it was, those of
\* dispatched orders included.
C14_HistoricalAccuracy ==
    \A token \in Tokens :
        /\ \A prod_id \in ProductIds :
              /\ \A producto_update \in ProductUpdateChoices :
                    editar_producto(DB, token, prod_id, producto_update).db.sales
                        = sales
              /\ desactivar_producto(DB, token, prod_id).db.sales = sales
        /\ \A presentation_id \in 1..(Len(presentations) + 1) :
              /\ \A presentation_update \in PresentationUpdateChoices :
                    update_presentation(DB, token, presentation_id,
                                        presentation_update).db.sales = sales
              /\ delete_presentation(DB, token, presentation_id).db.sales = sales

\* the product and the presentation a dispatched order's item names have been
\* renamed, repriced and deactivated
C14_Witness ==
    /\ \E i \in 1..Len(sales) :
          /\ ~sales[i].status
          /\ \E j \in 1..Len(sales[i].items) :
                LET it == sales[i].items[j] IN
                /\ it.presentation_id \in 1..Len(presentations)
                /\ ~presentations[it.presentation_id].status
                /\ presentations[it.presentation_id].description
                      # it.presentation_description
                /\ presentations[it.presentation_id].sale_price # it.price_at_time
                /\ ~products[it.product_id].status
                /\ products[it.product_id].name # it.product_name

\* C15: the Movement table is append-only: in every step the committed
\* Movement rows of before are still there, in place and with every field
\* unchanged; a step can only add rows after them.
C15_MovementsAppendOnly ==
    [][ /\ Len(movements') >= Len(movements)
        /\ SubSeq(movements', 1, Len(movements)) = movements ]_vars

\* a dispatch recorded its movement after a movement of registrar_movimiento
C15_Witness ==
    \E i, j \in 1..Len(movements) :
        /\ i < j
        /\ movements[i].observation = Observation("nota", 0)
        /\ movements[j].observation[1] = "Despacho pedido"

\* C16: crear_pedido_cliente answers 400 to every request whose client_name is
\* empty, whose client_phone is empty or whose item list is empty, and then
\* persists nothing: no Sale and no SaleItem.
C16_InvalidOrderRejected ==
    \A pedido \in SaleCreateChoices \cup SaleCreateInvalid :
        LET res == crear_pedido_cliente(DB, pedido) IN
        ( pedido.client_name = "" \/ pedido.client_phone = ""
          \/ pedido.items = <<>> )
        => /\ res.code = 400
           /\ res.db = DB

\* a shop that already has an order receives a request with items but no
\* client name, one with no phone and one with no items
C16_Witness ==
    /\ Len(sales) >= 1
    /\ \E p1, p2, p3 \in SaleCreateChoices \cup SaleCreateInvalid :
          /\ p1.client_name = "" /\ p1.client_phone # "" /\ p1.items # <<>>
          /\ p2.client_name # "" /\ p2.client_phone = "" /\ p2.items # <<>>
          /\ p3.client_name # "" /\ p3.client_phone # "" /\ p3.items = <<>>
          /\ \A p \in {p1, p2, p3} : crear_pedido_cliente(DB, p).code = 400

\* the requests that created an order and were answered 200
Created == { w \in Workers : reqs[w].op = "crear_pedido_cliente"
                              /\ reqs[w].code = 200 }

\* C17: order creation is atomic: in every committed state an order of
\* crear_pedido_cliente is there with all the items its request declared or
\* not there at all; a request in progress or failed while persisting its
\* items leaves no header behind.
C17_OrderCreationAtomic ==
    /\ Len(sales) = Len(start.sales) + Cardinality(Created)
    /\ \A i \in 1..Len(sales) :
          i > Len(start.sales) =>
              \E w \in Created : sales[i].items = reqs[w].pedido.items

\* one request failed at commit after adding its two items, the other one
\* committed its order
C17_Witness ==
    \E w, v \in Workers :
        /\ reqs[w].op = "crear_pedido_cliente"
        /\ reqs[w].code = 500
        /\ Len(reqs[w].pedido.items) = 2
        /\ reqs[w].i = 3
        /\ v \in Created

\* the unit price a dispatch line resolves to: the price_at_time of the order's
\* first SaleItem of the same product, else the product's catalogue sale_price
ResolvedPrice(pedido_id, line) ==
    LET matching == { j \in 1..Len(sales[pedido_id].items) :
                        sales[pedido_id].items[j].product_id = line.product_id }
    IN  IF matching # {}
        THEN sales[pedido_id].items[
                 CHOOSE j \in matching : \A k \in matching : j <= k].price_at_time
        ELSE products[line.product_id].sale_price

\* C18: after a successful despachar_pedido the order's total_estimated is the
\* sum over the lines of resolved price * line quantity, the resolved price
\* being the matching SaleItem's price_at_time or else the catalogue price.
C18_DispatchTotal ==
    \A token \in Tokens, pedido_id \in PedidoIds, lines \in LineLists :
        LET res == despachar_pedido(DB, token, pedido_id, lines) IN
        res.code = 200 =>
            res.db.sales[pedido_id].total_estimated =
                SumSeq([n \in 1..Len(lines) |->
                           ResolvedPrice(pedido_id, lines[n]) * lines[n].quantity])

\* one order whose line is charged at its SaleItem's price and another,
\* without items, whose line is charged at a different catalogue price
C18_Witness ==
    \E token \in Tokens, p1, p2 \in 1..Len(sales), lines \in LineLists :
        /\ Len(lines) = 1
        /\ SaleItemOf(sales[p1], lines[1].product_id) # 0
        /\ SaleItemOf(sales[p2], lines[1].product_id) = 0
        /\ despachar_pedido(DB, token, p1, lines).code = 200
        /\ despachar_pedido(DB, token, p2, lines).code = 200
        /\ ResolvedPrice(p1, lines[1]) # ResolvedPrice(p2, lines[1])

\* C19: actualizar_pedido and despachar_pedido called by an authenticated user
\* with an order id that does not exist answer 404, and for any caller leave
\* Sales, SaleItems, Stock rows and Movement rows unchanged.
C19_OrderNotFound ==
    \A token \in Tokens, pedido_id \in PedidoIds :
        pedido_id \notin 1..Len(sales) =>
            /\ \A pedido \in SaleCreateChoices :
                  LET res == actualizar_pedido(DB, token, pedido_id, pedido) IN
                  /\ get_current_user(token) => res.code = 404
                  /\ res.db = DB
            /\ \A lines \in LineLists :
                  LET res == despachar_pedido(DB, token, pedido_id, lines) IN
                  /\ get_current_user(token) => res.code = 404
                  /\ res.db = DB

\* a shop with orders and stock is asked to update and to dispatch, with lines
\* the stock could serve, an order id that does not exist
C19_Witness ==
    \E token \in Tokens, lines \in LineLists, pedido \in SaleCreateChoices :
        /\ Len(sales) >= 1
        /\ lines # <<>>
        /\ ~SinStock(DB, lines[1])
        /\ pedido.items # <<>>
        /\ despachar_pedido(DB, token, Len(sales) + 1, lines).code = 404
        /\ actualizar_pedido(DB, token, Len(sales) + 1, pedido).code = 404

\* C20: anyone, authenticated or not, can create an order; an anonymous caller
\* can never dispatch (401, nothing changes); admin and vendedor are both
\* allowed to dispatch and are treated alike.
C20_OrderAccess ==
    /\ \A pedido \in SaleCreateChoices :
          ( pedido.client_name # "" /\ pedido.client_phone # ""
            /\ pedido.items # <<>> )
          => crear_pedido_cliente(DB, pedido).code = 200
    /\ \A pedido_id \in PedidoIds, lines \in LineLists :
          /\ despachar_pedido(DB, Anonymous, pedido_id, lines)
                = HTTPException(401, DB)
          /\ LET admitted == despachar_pedido(DB, AdminToken, pedido_id, lines).code
             IN  /\ admitted \in {200, 400, 404}
                 /\ \A token \in Tokens \ {Anonymous} :
                       /\ token.role \in {"admin", "vendedor"}
                       /\ despachar_pedido(DB, token, pedido_id, lines).code
                             = admitted

\* a dispatch that takes stock when the admin or the vendedor asks for it and
\* that an anonymous caller asks for in vain
C20_Witness ==
    \E pedido_id \in PedidoIds, lines \in LineLists :
        /\ \A token \in Tokens \ {Anonymous} :
              LET res == despachar_pedido(DB, token, pedido_id, lines) IN
              res.code = 200 /\ res.db.stocks # stocks
        /\ \E t1, t2 \in Tokens : t1.role = "admin" /\ t2.role = "vendedor"
        /\ despachar_pedido(DB, Anonymous, pedido_id, lines).code = 401

\* C22: an insufficient-stock failure carries the available quantity: a
\* dispatch aborted because a line exceeds the stock names the offending
\* product and its available quantity; an EGRESO of registrar_movimiento that
\* exceeds the stock reports the available quantity, with the stock unchanged
\* and no Movement row added.
C22_InsufficientStockDetail ==
    /\ \A token \in Tokens, movimiento \in MovementCreateChoices :
          LET res == registrar_movimiento(DB, token, movimiento) IN
          res.code = 400 =>
              /\ "disponible" \in DOMAIN res.detail
              /\ res.detail.disponible = Quantity(DB, movimiento.product_id)
              /\ res.db.stocks = stocks
              /\ res.db.movements = movements
    /\ \A token \in Tokens, pedido_id \in PedidoIds, lines \in LineLists :
          LET res == despachar_pedido(DB, token, pedido_id, lines)
              loop == Descontar(DB, UserOf(DB, token.username), pedido_id, lines, 1)
          IN  ( res.code = 400 /\ HasStock(DB, lines[loop.failed].product_id) ) =>
                  /\ "product_id" \in DOMAIN res.detail
                  /\ res.detail.product_id = lines[loop.failed].product_id
                  /\ "disponible" \in DOMAIN res.detail
                  /\ res.detail.disponible =
                        Quantity(loop.session, lines[loop.failed].product_id)

\* C25: after a successful actualizar_pedido the order's SaleItems are exactly
\* the incoming items, one stored item per incoming item with the same
\* product_id, presentation_id, product_name, presentation_description,
\* quantity and price_at_time, and no previous item remains.
C25_UpdateReplacesItems ==
    \A token \in Tokens, pedido_id \in PedidoIds, pedido \in SaleCreateChoices :
        LET res == actualizar_pedido(DB, token, pedido_id, pedido) IN
        res.code = 200 => res.db.sales[pedido_id].items = pedido.items

\* C26: every Movement row recorded, by registrar_movimiento or by
\* despachar_pedido, has quantity > 0.
C26_MovementQuantityPositive ==
    \A i \in 1..Len(movements) : movements[i].quantity > 0

\* C27: after any successful despachar_pedido the order's stored
\* total_estimated equals the sum of quantity * price_at_time over the order's
\* stored SaleItems, whatever the adjustment list: omitting items, naming a
\* product the order does not have, repeating a product or empty.
C27_DispatchTotalMatchesItems ==
    \A token \in Tokens, pedido_id \in PedidoIds, lines \in LineLists :
        LET res == despachar_pedido(DB, token, pedido_id, lines) IN
        res.code = 200 =>
            LET stored == res.db.sales[pedido_id].items IN
            res.db.sales[pedido_id].total_estimated =
                SumSeq([j \in 1..Len(stored) |->
                           stored[j].quantity * stored[j].price_at_time])

\* C28: in every committed state every Sale has at least one SaleItem, after
\* any sequence of crear_pedido_cliente and actualizar_pedido calls.
C28_SaleHasItems ==
    \A i \in 1..Len(sales) : Len(sales[i].items) >= 1

\* the answer an admin-only operation owes a caller: whoever is not admin is
\* denied (401 without token, 403 as vendedor) and the database is unchanged
AdminOnly(token, res) ==
    /\ res.code = 200 => token.role = "admin"
    /\ token = Anonymous => res = HTTPException(401, DB)
    /\ (token # Anonymous /\ token.role # "admin") => res = HTTPException(403, DB)

\* C21: viewing the movement history and creating, editing or deactivating
\* products, presentations, unit measures and users succeed only for role
\* admin; a vendedor or an anonymous caller is denied and changes no state.
C21_AdminOnlyOperations ==
    \A token \in Tokens :
        /\ AdminOnly(token, ver_historial_completo(DB, token))
        /\ \A product_id \in ProductIds :
              /\ AdminOnly(token, ver_historial_producto(DB, token, product_id))
              /\ AdminOnly(token, desactivar_producto(DB, token, product_id))
              /\ \A producto_update \in ProductUpdateChoices :
                    AdminOnly(token, editar_producto(DB, token, product_id,
                                                     producto_update))
              /\ \A presentation \in PresentationCreateChoices :
                    AdminOnly(token, create_presentation(DB, token, product_id,
                                                         presentation))
        /\ \A producto \in ProductCreateChoices :
              AdminOnly(token, crear_producto(DB, token, producto))
        /\ \A presentation_id \in 1..(Len(presentations) + 1) :
              /\ AdminOnly(token, delete_presentation(DB, token, presentation_id))
              /\ \A presentation_update \in PresentationUpdateChoices :
                    AdminOnly(token, update_presentation(DB, token,
                                  presentation_id, presentation_update))
        /\ \A measure \in UnitMeasureCreateChoices :
              AdminOnly(token, create_unit_measure(DB, token, measure))
        /\ \A datos \in UserCreateChoices :
              AdminOnly(token, registrar_usuario(DB, token, datos))

\* a shop with movements, an active presentation and a second seller, where
\* the admin would succeed in each kind of operation and a vendedor asks too
C21_Witness ==
    /\ movements # <<>>
    /\ Len(users) = 3
    /\ Len(unit_measures) = Len(medidas)
    /\ \E t \in Tokens : t.role = "vendedor"
    /\ ver_historial_completo(DB, AdminToken).body # <<>>
    /\ desactivar_producto(DB, AdminToken, 1).db # DB
    /\ \E measure \in UnitMeasureCreateChoices :
          create_unit_measure(DB, AdminToken, measure).code = 200
    /\ \E producto \in ProductCreateChoices :
          crear_producto(DB, AdminToken, producto).code = 200

\* every Stock row of the database before the request is still there after it
\* with the same quantity, and a row the request added holds 0
QuantitiesKept(res) ==
    /\ Len(res.db.stocks) >= Len(stocks)
    /\ \A k \in 1..Len(res.db.stocks) :
          IF k <= Len(stocks) THEN res.db.stocks[k] = stocks[k]
          ELSE res.db.stocks[k].current_quantity = 0

\* C24: only registrar_movimiento and a successful despachar_pedido change a
\* Stock.current_quantity; creating or updating an order, creating, editing or
\* deactivating products and presentations, creating unit measures, registering
\* users, the stock and history queries and a refused dispatch leave every
\* quantity as it was.
C24_StockChangesOnlyThroughLedger ==
    /\ \A pedido \in SaleCreateChoices \cup SaleCreateInvalid :
          QuantitiesKept(crear_pedido_cliente(DB, pedido))
    /\ \A token \in Tokens :
        /\ \A pedido_id \in PedidoIds :
            /\ \A pedido_actualizado \in SaleCreateChoices :
                  QuantitiesKept(actualizar_pedido(DB, token, pedido_id,
                                                   pedido_actualizado))
            /\ \A lines \in LineLists :
                  LET res == despachar_pedido(DB, token, pedido_id, lines)
                  IN  res.code # 200 => QuantitiesKept(res)
        /\ \A producto \in ProductCreateChoices :
              QuantitiesKept(crear_producto(DB, token, producto))
        /\ \A product_id \in ProductIds :
            /\ QuantitiesKept(desactivar_producto(DB, token, product_id))
            /\ QuantitiesKept(obtener_stock_producto(DB, token, product_id))
            /\ QuantitiesKept(ver_historial_producto(DB, token, product_id))
            /\ \A producto_update \in ProductUpdateChoices :
                  QuantitiesKept(editar_producto(DB, token, product_id,
                                                 producto_update))
            /\ \A presentation \in PresentationCreateChoices :
                  QuantitiesKept(create_presentation(DB, token, product_id,
                                                     presentation))
        /\ \A presentation_id \in 1..(Len(presentations) + 1) :
            /\ QuantitiesKept(delete_presentation(DB, token, presentation_id))
            /\ \A presentation_update \in PresentationUpdateChoices :
                  QuantitiesKept(update_presentation(DB, token, presentation_id,
                                                     presentation_update))
        /\ \A measure \in UnitMeasureCreateChoices :
              QuantitiesKept(create_unit_measure(DB, token, measure))
        /\ \A datos \in UserCreateChoices :
              QuantitiesKept(registrar_usuario(DB, token, datos))
        /\ QuantitiesKept(ver_stock_actual(DB, token))
        /\ QuantitiesKept(ver_historial_completo(DB, token))

\* an open order on a product with units in stock: creating another order and
\* editing this one succeed, and a dispatch asking for too much is refused
C24_Witness ==
    /\ Len(sales) >= 1
    /\ sales[1].status
    /\ HasStock(DB, 1)
    /\ Quantity(DB, 1) > 0
    /\ \E pedido \in SaleCreateChoices :
          /\ crear_pedido_cliente(DB, pedido).code = 200
          /\ actualizar_pedido(DB, AdminToken, 1, pedido).code = 200
    /\ \E lines \in LineLists :
          despachar_pedido(DB, AdminToken, 1, lines).code = 400

\* the Stock rows of one product
StockRows(product_id) ==
    { k \in 1..Len(stocks) : stocks[k].product_id = product_id }

\* C23: in every committed state every Product has exactly one Stock row:
\* never zero, between the two commits of crear_producto included, and never
\* two, whatever the interleaving of crear_producto with the fix_stock script.
C23_OneStockRowPerProduct ==
    \A product_id \in 1..Len(products) :
        Cardinality(StockRows(product_id)) = 1

\* the half of C23 about missing rows
C23_NeverWithoutStock ==
    \A product_id \in 1..Len(products) : StockRows(product_id) # {}

\* the half of C23 about repeated rows
C23_NeverTwoStocks ==
    \A product_id \in 1..Len(products) :
        Cardinality(StockRows(product_id)) <= 1

====
